---- MODULE Spec2Model ----
(***************************************************************************)
(* Model of the two maintenance scripts of the repository:                 *)
(*   scripts/seed-sprint-09.py        (seed_sprint_09)                      *)
(*   scripts/update-master-context.py (create_master_context_update,        *)
(*                                     create_context_snapshot, __main__)   *)
(* running against one shared SQLite store (cmos/db/cmos.sqlite) and one    *)
(* shared file (cmos/context/MASTER_CONTEXT.json).                          *)
(*                                                                         *)
(* A process is one invocation of a script.  Every statement of the        *)
(* try-block of a script is one action; the except- and finally-clauses    *)
(* are actions of their own.  The store is a committed image `db` plus,    *)
(* per connection, the private image of its open transaction.              *)
(***************************************************************************)
EXTENDS Integers, Sequences, FiniteSets, TLC

\* ------------------------------------------------------------------ bounds
\* Number of script invocations explored in one behaviour.
MaxRuns == 3
\* Number of operating-system processes that may run a script.
NProcs == 2

Procs == 1..NProcs

\* ------------------------------------------------------- literal program data
\* seed-sprint-09.py: sprint_data (only the columns the properties read).
sprint_data == [id |-> "sprint-09", total_missions |-> 8]

\* seed-sprint-09.py: the ids of the literal list `missions`, in list order.
missions ==
  << "s09-m01", "s09-m02", "s09-m03", "s09-m04",
     "s09-m05", "s09-m06", "s09-m07", "s09-m08" >>

\* update-master-context.py: context_data, flattened to (path, value) pairs in
\* the insertion order of the dict literal.
context_data ==
  << << "project.name", "CMOS Starter Template" >>,
     << "project.description",
        "Updated with Mission Protocol CMOS integration analysis - Nov 2025" >>,
     << "sprint_tracking.current_sprint", "sprint-09" >> >>

\* The document an earlier version of the project left in the file and in the
\* contexts row.
old_context_data ==
  << << "project.name", "CMOS Starter Template" >>,
     << "project.description", "CMOS starter" >> >>

MASTER_CONTEXT_PATH == "cmos/context/MASTER_CONTEXT.json"

\* json.dumps(data, indent=n, ensure_ascii=False): one line per member, each
\* carrying its indentation, between the two brace lines.
json_dumps(data, indent) ==
  << << 0, "{", "" >> >>
  \o [k \in 1..Len(data) |-> << indent, data[k][1], data[k][2] >>]
  \o << << 0, "}", "" >> >>

\* The indentation both scripts pass to json.dumps.
JsonIndent == 2

\* The text create_master_context_update writes to the file.
FileText(data) == json_dumps(data, JsonIndent)

\* The content parameter of the UPDATE / INSERT INTO contexts statements.
ContextContent(data) == json_dumps(data, JsonIndent)

\* The content parameter of the INSERT INTO context_snapshots statement.
SnapshotContentCompact(data) == json_dumps(data, 0)
SnapshotContent(data) == json_dumps(data, JsonIndent)

\* ------------------------------------------------------------ console output
\* Messages are sequences of characters, so that "contains the word error"
\* is decided by a search and not by the name of the message.
DatabaseErrorText ==
  << "D","a","t","a","b","a","s","e"," ","e","r","r","o","r",":" >>
SeededText == << "S","e","e","d","e","d" >>
SnapshotText == << "S","n","a","p","s","h","o","t" >>
CompleteText == << "C","o","m","p","l","e","t","e" >>

Lower(c) ==
  CASE c = "D" -> "d" [] c = "S" -> "s" [] c = "C" -> "c"
    [] c = "E" -> "e" [] c = "R" -> "r" [] c = "O" -> "o"
    [] OTHER -> c

ContainsCI(text, word) ==
  \E s \in 0..(Len(text) - Len(word)) :
    \A k \in 1..Len(word) : Lower(text[s + k]) = Lower(word[k])

ErrorWord == << "e","r","r","o","r" >>

\* ------------------------------------------------------------------- state
VARIABLES
  db,       \* the committed image of the store: one sequence of rows per table
  db0,      \* the committed image the behaviour started from
  writer,   \* the process holding the store's write lock, 0 when it is free
  file,     \* the text of MASTER_CONTEXT.json
  now,      \* the clock datetime.now() reads
  runs,     \* the number of invocations started so far
  okUpdates,\* the number of context-updater invocations that exited with status 0
  pc,       \* per process: the statement it executes next
  script,   \* per process: "seed" or "update"
  step,     \* per process: how many calls of __main__ have been started
  conn,     \* per process: the local variable conn: unbound, open or closed
  tx,       \* per process: the open transaction of conn and its private image
  exists,   \* per process: whether cursor.fetchone() returned a row
  idx,      \* per process: position of the for-loop over missions
  pending,  \* per process: the exception propagating out of the function
  out,      \* per process: the messages printed so far
  trace,    \* per process: the store statements executed, with their outcome
  written,  \* per process: the text this run wrote to the file, <<>> if none
  exit,     \* per process: exit status, -1 while the process has not exited
  pre       \* per process: the committed image when the invocation started

vars ==
  << db, db0, writer, file, now, runs, okUpdates, pc, script, step, conn, tx, exists,
     idx, pending, out, trace, written, exit, pre >>

EmptyDb ==
  [sprints |-> << >>, missions |-> << >>, contexts |-> << >>,
   context_snapshots |-> << >>]

NoTx == [active |-> FALSE, image |-> EmptyDb]

\* The image a connection reads: its own transaction's, else the committed one.
View(p) == IF tx[p].active THEN tx[p].image ELSE db

Ids(rows) == {rows[k].id : k \in 1..Len(rows)}

RowsWithId(rows, id) == {k \in 1..Len(rows) : rows[k].id = id}

\* Schema: id is the primary key of sprints, missions and contexts, so an
\* INSERT of an id already in the table raises sqlite3.IntegrityError.
PrimaryKeyViolated(rows, id) == id \in Ids(rows)

\* ------------------------------------------------------------ initial store
\* A mission row an earlier seeding left behind, owned by another sprint.
StaleMission(k) == [id |-> missions[k], sprint_id |-> "sprint-08"]

OldContextRow ==
  [id |-> "master_context", source_path |-> MASTER_CONTEXT_PATH,
   content |-> json_dumps(old_context_data, JsonIndent), updated_at |-> 0]

InitialStores ==
  { [sprints |-> << >>,
     missions |-> IF k = 0 THEN << >> ELSE << StaleMission(k) >>,
     contexts |-> IF c THEN << OldContextRow >> ELSE << >>,
     context_snapshots |-> << >>] :
    k \in 0..Len(missions), c \in BOOLEAN }

InitWith(stores) ==
  /\ db \in stores
  /\ db0 = db
  /\ writer = 0
  /\ file = json_dumps(old_context_data, JsonIndent)
  /\ now = 1
  /\ runs = 0
  /\ okUpdates = 0
  /\ pc = [p \in Procs |-> "idle"]
  /\ script = [p \in Procs |-> "seed"]
  /\ step = [p \in Procs |-> 0]
  /\ conn = [p \in Procs |-> "unbound"]
  /\ tx = [p \in Procs |-> NoTx]
  /\ exists = [p \in Procs |-> FALSE]
  /\ idx = [p \in Procs |-> 1]
  /\ pending = [p \in Procs |-> "none"]
  /\ out = [p \in Procs |-> << >>]
  /\ trace = [p \in Procs |-> << >>]
  /\ written = [p \in Procs |-> << >>]
  /\ exit = [p \in Procs |-> -1]
  /\ pre = [p \in Procs |-> db]

Init == InitWith(InitialStores)

\* The stores the context updater can meet: the seeder's tables play no part.
InitConcurrent == InitWith({d \in InitialStores : d.missions = << >>})

\* ------------------------------------------------------------ process start
\* The calls __main__ makes, in order.
MainCallsSnapshotFirst(s) ==
  IF s = "seed" THEN << "seed_sprint_09" >>
  ELSE << "create_context_snapshot", "create_master_context_update" >>
MainCalls(s) ==
  IF s = "seed" THEN << "seed_sprint_09" >>
  ELSE << "create_master_context_update", "create_context_snapshot" >>

\* The first statement of a called function.
Entry(f) == IF f = "create_master_context_update" THEN "write_text" ELSE "connect"

\* A fresh interpreter: every local is unbound, nothing has been printed.
Launch(p, s) ==
  /\ runs' = runs + 1
  /\ pc' = [pc EXCEPT ![p] = "main"]
  /\ script' = [script EXCEPT ![p] = s]
  /\ step' = [step EXCEPT ![p] = 0]
  /\ conn' = [conn EXCEPT ![p] = "unbound"]
  /\ tx' = [tx EXCEPT ![p] = NoTx]
  /\ exists' = [exists EXCEPT ![p] = FALSE]
  /\ idx' = [idx EXCEPT ![p] = 1]
  /\ pending' = [pending EXCEPT ![p] = "none"]
  /\ out' = [out EXCEPT ![p] = << >>]
  /\ trace' = [trace EXCEPT ![p] = << >>]
  /\ written' = [written EXCEPT ![p] = << >>]
  /\ exit' = [exit EXCEPT ![p] = -1]
  /\ pre' = [pre EXCEPT ![p] = db]
  /\ UNCHANGED << db, db0, writer, file, now, okUpdates >>

\* The scripts run one after the other, as section 2 of the design describes:
\* the next invocation starts when the previous one has exited.
CanRun(p) == pc[p] \in {"idle", "done"} /\ runs < MaxRuns

RunSeeder(p) == CanRun(p) /\ Launch(p, "seed")
RunUpdater(p) == CanRun(p) /\ Launch(p, "update")

\* Context updaters started without waiting for each other, one per process.
RunUpdaterConcurrently(p) == pc[p] = "idle" /\ Launch(p, "update")

\* __main__: call the next function, or fall off the end with status 0.
Main(p) ==
  /\ pc[p] = "main"
  /\ IF step[p] < Len(MainCalls(script[p]))
     THEN /\ pc' = [pc EXCEPT ![p] = Entry(MainCalls(script[p])[step[p] + 1])]
          /\ step' = [step EXCEPT ![p] = step[p] + 1]
          /\ UNCHANGED << out, exit, okUpdates >>
     ELSE /\ pc' = [pc EXCEPT ![p] = "done"]
          /\ out' = [out EXCEPT ![p] =
                       IF script[p] = "update" THEN Append(@, CompleteText) ELSE @]
          /\ exit' = [exit EXCEPT ![p] = 0]
          /\ okUpdates' = IF script[p] = "update" THEN okUpdates + 1 ELSE okUpdates
          /\ UNCHANGED step
  /\ UNCHANGED << db, db0, writer, file, now, runs, script, conn, tx, exists, idx,
                  pending, trace, written, pre >>

\* --------------------------------------------------- statements of the store
\* A statement's outcome: "ok", or the reason the engine raised sqlite3.Error:
\* "constraint" (IntegrityError), "locked" (busy timeout), "engine" (any other).
Done(p, s) == Append(trace[p], [stmt |-> s, result |-> "ok"])
Failed(p, s, why) == Append(trace[p], [stmt |-> s, result |-> why])

\* Statements that need the store's write lock.
WriteStatements == {"insert_sprint", "insert_mission", "upsert", "insert_snapshot", "commit"}

StoreStatements == {"connect", "select"} \cup WriteStatements

LockFree(p) == writer \in {0, p}

\* sqlite3.connect(DB_PATH); cursor = conn.cursor()
Connect(p) ==
  /\ pc[p] = "connect"
  /\ conn' = [conn EXCEPT ![p] = "open"]
  /\ trace' = [trace EXCEPT ![p] = Done(p, "connect")]
  /\ pc' = [pc EXCEPT ![p] = IF script[p] = "seed" THEN "insert_sprint" ELSE "select"]
  /\ UNCHANGED << db, db0, writer, file, now, runs, okUpdates, script, step, tx, exists,
                  idx, pending, out, written, exit, pre >>

\* The engine raises sqlite3.Error at the current statement (file missing or
\* unwritable, schema missing, disk full, ...).  A failed statement leaves the
\* transaction as it was; a failed connect leaves conn unbound.
StorageError(p) ==
  /\ pc[p] \in StoreStatements
  /\ pc[p] \in WriteStatements => LockFree(p)
  /\ trace' = [trace EXCEPT ![p] = Failed(p, pc[p], "engine")]
  /\ pc' = [pc EXCEPT ![p] = "except"]
  /\ UNCHANGED << db, db0, writer, file, now, runs, okUpdates, script, step, conn, tx,
                  exists, idx, pending, out, written, exit, pre >>

\* The write lock is held by another connection until the busy timeout
\* expires: sqlite3.OperationalError, database is locked.
DatabaseLocked(p) ==
  /\ pc[p] \in WriteStatements
  /\ ~LockFree(p)
  /\ trace' = [trace EXCEPT ![p] = Failed(p, pc[p], "locked")]
  /\ pc' = [pc EXCEPT ![p] = "except"]
  /\ UNCHANGED << db, db0, writer, file, now, runs, okUpdates, script, step, conn, tx,
                  exists, idx, pending, out, written, exit, pre >>

\* The sqlite3 module opens a transaction before the first INSERT or UPDATE of
\* a connection; the statement then works on the transaction's image.
InTx(p, image) == [active |-> TRUE, image |-> image]

\* ------------------------------------------------------------ seed_sprint_09
SprintRow == [id |-> sprint_data.id, total_missions |-> sprint_data.total_missions]

MissionRowOwnId(k) == [id |-> missions[k], sprint_id |-> missions[k]]
MissionRow(k) == [id |-> missions[k], sprint_id |-> sprint_data.id]

\* INSERT OR REPLACE INTO sprints: a duplicate id is no error.
SeedInsertSprintOrReplace(p) ==
  /\ pc[p] = "insert_sprint"
  /\ LockFree(p)
  /\ writer' = p
  /\ tx' = [tx EXCEPT ![p] =
              InTx(p, [View(p) EXCEPT !.sprints =
                         SelectSeq(@, LAMBDA r : r.id # SprintRow.id) \o << SprintRow >>])]
  /\ trace' = [trace EXCEPT ![p] = Done(p, "insert_sprint")]
  /\ pc' = [pc EXCEPT ![p] = "insert_mission"]
  /\ UNCHANGED << db, db0, file, now, runs, okUpdates, script, step, conn, exists, idx,
                  pending, out, written, exit, pre >>

\* INSERT INTO sprints (...) VALUES (...)
SeedInsertSprint(p) ==
  /\ pc[p] = "insert_sprint"
  /\ LockFree(p)
  /\ writer' = p
  /\ IF PrimaryKeyViolated(View(p).sprints, SprintRow.id)
     THEN /\ tx' = [tx EXCEPT ![p] = InTx(p, View(p))]
          /\ trace' = [trace EXCEPT ![p] = Failed(p, "insert_sprint", "constraint")]
          /\ pc' = [pc EXCEPT ![p] = "except"]
     ELSE /\ tx' = [tx EXCEPT ![p] =
                      InTx(p, [View(p) EXCEPT !.sprints = Append(@, SprintRow)])]
          /\ trace' = [trace EXCEPT ![p] = Done(p, "insert_sprint")]
          /\ pc' = [pc EXCEPT ![p] = "insert_mission"]
  /\ UNCHANGED << db, db0, file, now, runs, okUpdates, script, step, conn, exists, idx,
                  pending, out, written, exit, pre >>

\* for mission in missions: INSERT INTO missions (...) VALUES (...)
SeedInsertMission(p) ==
  /\ pc[p] = "insert_mission"
  /\ LockFree(p)
  /\ writer' = p
  /\ IF PrimaryKeyViolated(View(p).missions, MissionRow(idx[p]).id)
     THEN /\ tx' = [tx EXCEPT ![p] = InTx(p, View(p))]
          /\ trace' = [trace EXCEPT ![p] = Failed(p, "insert_mission", "constraint")]
          /\ pc' = [pc EXCEPT ![p] = "except"]
          /\ UNCHANGED idx
     ELSE /\ tx' = [tx EXCEPT ![p] =
                      InTx(p, [View(p) EXCEPT !.missions = Append(@, MissionRow(idx[p]))])]
          /\ trace' = [trace EXCEPT ![p] = Done(p, "insert_mission")]
          /\ idx' = [idx EXCEPT ![p] = idx[p] + 1]
          /\ pc' = [pc EXCEPT ![p] =
                      IF idx[p] = Len(missions) THEN "commit" ELSE "insert_mission"]
  /\ UNCHANGED << db, db0, file, now, runs, okUpdates, script, step, conn, exists,
                  pending, out, written, exit, pre >>

\* ------------------------------------------------- commit, except, finally
\* conn.commit() and the success messages printed after it.
Commit(p) ==
  /\ pc[p] = "commit"
  /\ LockFree(p)
  /\ db' = View(p)
  /\ tx' = [tx EXCEPT ![p] = NoTx]
  /\ writer' = 0
  /\ trace' = [trace EXCEPT ![p] = Done(p, "commit")]
  /\ out' = [out EXCEPT ![p] =
               Append(@, IF script[p] = "seed" THEN SeededText ELSE SnapshotText)]
  /\ pc' = [pc EXCEPT ![p] = "finally"]
  /\ UNCHANGED << db0, file, now, runs, okUpdates, script, step, conn, exists, idx,
                  pending, written, exit, pre >>

\* except sqlite3.Error: the message is printed and the error is dropped.
ExceptSwallows(p) ==
  /\ pc[p] = "except"
  /\ out' = [out EXCEPT ![p] = Append(@, DatabaseErrorText)]
  /\ pc' = [pc EXCEPT ![p] = "finally"]
  /\ UNCHANGED << db, db0, writer, file, now, runs, okUpdates, script, step, conn, tx,
                  exists, idx, pending, trace, written, exit, pre >>

\* except sqlite3.Error as e: print(f"Database error: {e}"); sys.exit(1)
Except(p) ==
  /\ pc[p] = "except"
  /\ out' = [out EXCEPT ![p] = Append(@, DatabaseErrorText)]
  /\ pending' = [pending EXCEPT ![p] = "SystemExit"]
  /\ pc' = [pc EXCEPT ![p] = "finally"]
  /\ UNCHANGED << db, db0, writer, file, now, runs, okUpdates, script, step, conn, tx,
                  exists, idx, trace, written, exit, pre >>

\* What conn.close() leaves committed: an open transaction is rolled back.
AfterCloseCommitting(p) == View(p)
AfterClose(p) == db

\* The exception that leaves the finally-clause.  Reading the unbound local
\* conn raises UnboundLocalError, which replaces the one in flight.
Leaving(p) == IF conn[p] = "unbound" THEN "UnboundLocalError" ELSE pending[p]

\* finally: if conn: conn.close()
\* An exception leaving the function is not caught by __main__: the
\* interpreter exits with status 1.
Finally(p) ==
  /\ pc[p] = "finally"
  /\ pending' = [pending EXCEPT ![p] = Leaving(p)]
  /\ IF conn[p] = "unbound"
     THEN UNCHANGED << db, conn, tx, writer >>
     ELSE /\ db' = AfterClose(p)
          /\ conn' = [conn EXCEPT ![p] = "closed"]
          /\ tx' = [tx EXCEPT ![p] = NoTx]
          /\ writer' = IF writer = p THEN 0 ELSE writer
  /\ IF Leaving(p) = "none"
     THEN /\ pc' = [pc EXCEPT ![p] = "main"]
          /\ UNCHANGED exit
     ELSE /\ pc' = [pc EXCEPT ![p] = "done"]
          /\ exit' = [exit EXCEPT ![p] = 1]
  /\ UNCHANGED << db0, file, now, runs, okUpdates, script, step, exists, idx,
                  out, trace, written, pre >>

\* ---------------------------------------------- create_master_context_update
\* MASTER_CONTEXT_PATH.write_text(json.dumps(context_data, indent=2, ...))
WriteText(p) ==
  /\ pc[p] = "write_text"
  /\ file' = FileText(context_data)
  /\ written' = [written EXCEPT ![p] = FileText(context_data)]
  /\ pc' = [pc EXCEPT ![p] = "main"]
  /\ UNCHANGED << db, db0, writer, now, runs, okUpdates, script, step, conn, tx, exists,
                  idx, pending, out, trace, exit, pre >>

\* write_text raises OSError, before or after the file was truncated.  Nothing
\* catches it: the interpreter exits with status 1.
WriteTextFails(p) ==
  /\ pc[p] = "write_text"
  /\ file' \in {file, << >>}
  /\ pending' = [pending EXCEPT ![p] = "OSError"]
  /\ pc' = [pc EXCEPT ![p] = "done"]
  /\ exit' = [exit EXCEPT ![p] = 1]
  /\ UNCHANGED << db, db0, writer, now, runs, okUpdates, script, step, conn, tx, exists, idx,
                  out, trace, written, pre >>

\* ------------------------------------------------- create_context_snapshot
\* SELECT id FROM contexts WHERE id = 'master_context'; exists = fetchone()
Select(p) ==
  /\ pc[p] = "select"
  /\ exists' = [exists EXCEPT ![p] = RowsWithId(View(p).contexts, "master_context") # {}]
  /\ trace' = [trace EXCEPT ![p] = Done(p, "select")]
  /\ pc' = [pc EXCEPT ![p] = "upsert"]
  /\ UNCHANGED << db, db0, writer, file, now, runs, okUpdates, script, step, conn, tx,
                  idx, pending, out, written, exit, pre >>

NewContextRow ==
  [id |-> "master_context", source_path |-> MASTER_CONTEXT_PATH,
   content |-> ContextContent(context_data), updated_at |-> now]

\* UPDATE contexts SET content = ?, updated_at = ? WHERE id = 'master_context'
Updated(rows) ==
  [k \in 1..Len(rows) |->
     IF rows[k].id = "master_context"
     THEN [rows[k] EXCEPT !.content = ContextContent(context_data), !.updated_at = now]
     ELSE rows[k]]

\* The connection in autocommit mode: the statement is committed at once.
UpsertAutocommit(p) ==
  /\ pc[p] = "upsert"
  /\ LockFree(p)
  /\ now' = now + 1
  /\ IF exists[p]
     THEN /\ db' = [db EXCEPT !.contexts = Updated(@)]
          /\ trace' = [trace EXCEPT ![p] = Done(p, "upsert")]
          /\ pc' = [pc EXCEPT ![p] = "insert_snapshot"]
     ELSE IF PrimaryKeyViolated(db.contexts, NewContextRow.id)
     THEN /\ UNCHANGED db
          /\ trace' = [trace EXCEPT ![p] = Failed(p, "upsert", "constraint")]
          /\ pc' = [pc EXCEPT ![p] = "except"]
     ELSE /\ db' = [db EXCEPT !.contexts = Append(@, NewContextRow)]
          /\ trace' = [trace EXCEPT ![p] = Done(p, "upsert")]
          /\ pc' = [pc EXCEPT ![p] = "insert_snapshot"]
  /\ UNCHANGED << db0, writer, file, runs, okUpdates, script, step, conn, tx, exists,
                  idx, pending, out, written, exit, pre >>

\* INSERT OR IGNORE in the else-branch: a duplicate id is skipped silently.
UpsertIgnoringConflict(p) ==
  /\ pc[p] = "upsert"
  /\ LockFree(p)
  /\ writer' = p
  /\ now' = now + 1
  /\ tx' = [tx EXCEPT ![p] =
              InTx(p, IF exists[p]
                      THEN [View(p) EXCEPT !.contexts = Updated(@)]
                      ELSE IF PrimaryKeyViolated(View(p).contexts, NewContextRow.id)
                      THEN View(p)
                      ELSE [View(p) EXCEPT !.contexts = Append(@, NewContextRow)])]
  /\ trace' = [trace EXCEPT ![p] = Done(p, "upsert")]
  /\ pc' = [pc EXCEPT ![p] = "insert_snapshot"]
  /\ UNCHANGED << db, db0, file, runs, okUpdates, script, step, conn, exists, idx,
                  pending, out, written, exit, pre >>

\* if exists: UPDATE contexts ... else: INSERT INTO contexts ...
Upsert(p) ==
  /\ pc[p] = "upsert"
  /\ LockFree(p)
  /\ writer' = p
  /\ now' = now + 1
  /\ IF exists[p]
     THEN /\ tx' = [tx EXCEPT ![p] = InTx(p, [View(p) EXCEPT !.contexts = Updated(@)])]
          /\ trace' = [trace EXCEPT ![p] = Done(p, "upsert")]
          /\ pc' = [pc EXCEPT ![p] = "insert_snapshot"]
     ELSE IF PrimaryKeyViolated(View(p).contexts, NewContextRow.id)
     THEN /\ tx' = [tx EXCEPT ![p] = InTx(p, View(p))]
          /\ trace' = [trace EXCEPT ![p] = Failed(p, "upsert", "constraint")]
          /\ pc' = [pc EXCEPT ![p] = "except"]
     ELSE /\ tx' = [tx EXCEPT ![p] =
                      InTx(p, [View(p) EXCEPT !.contexts = Append(@, NewContextRow)])]
          /\ trace' = [trace EXCEPT ![p] = Done(p, "upsert")]
          /\ pc' = [pc EXCEPT ![p] = "insert_snapshot"]
  /\ UNCHANGED << db, db0, file, runs, okUpdates, script, step, conn, exists, idx,
                  pending, out, written, exit, pre >>

SnapshotRow(rows) ==
  [id |-> Len(rows) + 1, context_id |-> "master_context",
   session_id |-> "session-2025-11-07-cmos-analysis",
   source |-> MASTER_CONTEXT_PATH, content_hash |-> << "snapshot_", now >>,
   content |-> SnapshotContent(context_data), created_at |-> now]

\* UPDATE of the newest snapshot row instead of an INSERT.
InsertSnapshotOverwriting(p) ==
  /\ pc[p] = "insert_snapshot"
  /\ LockFree(p)
  /\ writer' = p
  /\ now' = now + 1
  /\ LET rows == View(p).context_snapshots
         kept == IF rows = << >> THEN rows ELSE SubSeq(rows, 1, Len(rows) - 1)
     IN tx' = [tx EXCEPT ![p] =
                 InTx(p, [View(p) EXCEPT !.context_snapshots = Append(kept, SnapshotRow(kept))])]
  /\ trace' = [trace EXCEPT ![p] = Done(p, "insert_snapshot")]
  /\ pc' = [pc EXCEPT ![p] = "commit"]
  /\ UNCHANGED << db, db0, file, runs, okUpdates, script, step, conn, exists, idx,
                  pending, out, written, exit, pre >>

\* INSERT INTO context_snapshots (...) VALUES (...); the id is generated.
InsertSnapshot(p) ==
  /\ pc[p] = "insert_snapshot"
  /\ LockFree(p)
  /\ writer' = p
  /\ now' = now + 1
  /\ tx' = [tx EXCEPT ![p] =
              InTx(p, [View(p) EXCEPT !.context_snapshots = Append(@, SnapshotRow(@))])]
  /\ trace' = [trace EXCEPT ![p] = Done(p, "insert_snapshot")]
  /\ pc' = [pc EXCEPT ![p] = "commit"]
  /\ UNCHANGED << db, db0, file, runs, okUpdates, script, step, conn, exists, idx,
                  pending, out, written, exit, pre >>

\* ------------------------------------------------------------ specifications
\* The scripts invoked one at a time.
Next ==
  \E p \in {1} :
    \/ RunSeeder(p)
    \/ RunUpdater(p)
    \/ Main(p)
    \/ Connect(p)
    \/ StorageError(p)
    \/ SeedInsertSprint(p)
    \/ SeedInsertMission(p)
    \/ WriteText(p)
    \/ WriteTextFails(p)
    \/ Select(p)
    \/ Upsert(p)
    \/ InsertSnapshot(p)
    \/ Commit(p)
    \/ Except(p)
    \/ Finally(p)

Spec == Init /\ [][Next]_vars

\* Context updaters invoked without waiting for one another.
NextConcurrent ==
  \E p \in Procs :
    \/ RunUpdaterConcurrently(p)
    \/ Main(p)
    \/ Connect(p)
    \/ StorageError(p)
    \/ DatabaseLocked(p)
    \/ WriteText(p)
    \/ WriteTextFails(p)
    \/ Select(p)
    \/ Upsert(p)
    \/ InsertSnapshot(p)
    \/ Commit(p)
    \/ Except(p)
    \/ Finally(p)

SpecConcurrent == InitConcurrent /\ [][NextConcurrent]_vars

\* ------------------------------------------------------ vocabulary of claims
Exited(p) == pc[p] = "done"
Invoked(p) == pc[p] # "idle"

Ran(p, s) == \E k \in 1..Len(trace[p]) : trace[p][k].stmt = s
Succeeded(p, s) ==
  \E k \in 1..Len(trace[p]) : trace[p][k].stmt = s /\ trace[p][k].result = "ok"
Raised(p) == \E k \in 1..Len(trace[p]) : trace[p][k].result # "ok"
Last(t) == t[Len(t)]
Count(p, s) ==
  Cardinality({k \in 1..Len(trace[p]) : trace[p][k].stmt = s /\ trace[p][k].result = "ok"})

PrintedError(p) == \E k \in 1..Len(out[p]) : ContainsCI(out[p][k], ErrorWord)

AllMissionRows == [k \in 1..Len(missions) |-> MissionRow(k)]

MasterRows(d) == RowsWithId(d.contexts, "master_context")

\* C1: one run of the seeder on empty sprints and missions tables exits with
\* status 0 unless the engine itself faults, and leaves exactly the sprint row
\* sprint-09 and the eight mission rows s09-m01 .. s09-m08, each with sprint_id
\* equal to the id of that sprint row.
C1_SeedOnceOnEmptyStore ==
  \A p \in Procs :
    (Exited(p) /\ script[p] = "seed"
       /\ pre[p].sprints = << >> /\ pre[p].missions = << >>) =>
      /\ exit[p] = 0 \/ Last(trace[p]).result = "engine"
      /\ exit[p] = 0 =>
           /\ Len(db.sprints) = 1
           /\ db.sprints[1].id = "sprint-09"
           /\ Len(db.missions) = sprint_data.total_missions
           /\ \A k \in 1..Len(db.missions) :
                /\ db.missions[k].id = missions[k]
                /\ db.missions[k].sprint_id = db.sprints[1].id

C1_Witness ==
  \E p \in Procs :
    /\ Exited(p) /\ script[p] = "seed" /\ exit[p] = 0
    /\ pre[p].sprints = << >> /\ pre[p].missions = << >>
    /\ Len(db.missions) = Len(missions)

FirstRunSucceeded(d) ==
  /\ d.sprints = << SprintRow >>
  /\ d.missions = AllMissionRows

\* C2: a run of the seeder on a store a first run seeded fails at the sprint
\* insert (duplicate id), exits with non-zero status, executes no mission
\* insert and leaves the committed store exactly as the first run left it.
C2_SecondSeedFailsAndChangesNothing ==
  \A p \in Procs :
    (Invoked(p) /\ script[p] = "seed" /\ FirstRunSucceeded(pre[p])) =>
      /\ db = pre[p]
      /\ ~Ran(p, "insert_mission")
      /\ ~Succeeded(p, "insert_sprint")
      /\ Exited(p) =>
           /\ exit[p] = 1
           /\ Last(trace[p]).stmt \in {"connect", "insert_sprint"}
           /\ Len(db.sprints) = 1
           /\ Len(db.missions) = Len(missions)

C2_Witness ==
  \E p \in Procs :
    /\ Exited(p) /\ script[p] = "seed" /\ FirstRunSucceeded(pre[p])
    /\ Last(trace[p]) = [stmt |-> "insert_sprint", result |-> "constraint"]
    /\ exit[p] = 1

\* C3: the seeder's inserts are all-or-nothing.  The committed store is either
\* what it was when the run started or that plus the sprint row and all eight
\* mission rows, the latter only once the commit succeeded; and a run that
\* exited with an error has left nothing behind, wherever the failure struck.
C3_SeedAllOrNothing ==
  \A p \in Procs :
    (Invoked(p) /\ script[p] = "seed") =>
      /\ \/ db = pre[p]
         \/ /\ Succeeded(p, "commit")
            /\ db.sprints = pre[p].sprints \o << SprintRow >>
            /\ db.missions = pre[p].missions \o AllMissionRows
            /\ db.contexts = pre[p].contexts
            /\ db.context_snapshots = pre[p].context_snapshots
      /\ (Exited(p) /\ Raised(p)) =>
           /\ db = pre[p]
           /\ ~tx[p].active
           /\ exit[p] = 1

C3_Witness ==
  \E p \in Procs :
    /\ Exited(p) /\ script[p] = "seed"
    /\ Succeeded(p, "insert_sprint")
    /\ Count(p, "insert_mission") >= 2
    /\ Last(trace[p]) = [stmt |-> "insert_mission", result |-> "constraint"]
    /\ db = pre[p]

\* C4: starting from empty contexts and context_snapshots tables, once n >= 1
\* runs of the context updater have succeeded (and no run is in progress) the
\* contexts table holds exactly one row, with id master_context, and
\* context_snapshots holds exactly n rows.
C4_OneContextRowNSnapshots ==
  (/\ db0.contexts = << >>
   /\ db0.context_snapshots = << >>
   /\ okUpdates >= 1
   /\ \A p \in Procs : pc[p] \in {"idle", "done"}) =>
    /\ Len(db.contexts) = 1
    /\ db.contexts[1].id = "master_context"
    /\ Len(db.context_snapshots) = okUpdates

C4_Witness ==
  /\ db0.contexts = << >>
  /\ okUpdates >= 2
  /\ \A p \in Procs : pc[p] \in {"idle", "done"}
  /\ Len(db.context_snapshots) = okUpdates

\* C5: the context updater's writes commit together.  At every moment of a run
\* the committed store is what it was at the start, or that with the contexts
\* row written and exactly one snapshot appended, after a successful commit;
\* a run whose snapshot insert or commit raised after the insert-or-update
\* succeeded exits non-zero with contexts and context_snapshots untouched.
C5_UpdaterWritesCommitTogether ==
  \A p \in Procs :
    (Invoked(p) /\ script[p] = "update") =>
      /\ \/ db = pre[p]
         \/ /\ Succeeded(p, "commit")
            /\ Len(db.context_snapshots) = Len(pre[p].context_snapshots) + 1
            /\ MasterRows(db) # {}
      /\ (/\ Exited(p)
          /\ Succeeded(p, "upsert")
          /\ Last(trace[p]).stmt \in {"insert_snapshot", "commit"}
          /\ Last(trace[p]).result # "ok") =>
           /\ db.contexts = pre[p].contexts
           /\ db.context_snapshots = pre[p].context_snapshots
           /\ exit[p] # 0

C5_Witness ==
  \E p \in Procs :
    /\ Exited(p) /\ script[p] = "update"
    /\ Succeeded(p, "upsert")
    /\ Last(trace[p]) = [stmt |-> "commit", result |-> "engine"]
    /\ pre[p].contexts # << >>
    /\ db.contexts = pre[p].contexts

\* C6: after a successful run of the context updater the content of the
\* snapshot row that run appended, and the content of the live contexts row,
\* are the text the same run wrote to MASTER_CONTEXT.json.
C6_SnapshotEqualsFile ==
  \A p \in Procs :
    (Exited(p) /\ script[p] = "update" /\ exit[p] = 0) =>
      /\ written[p] # << >>
      /\ file = written[p]
      /\ db.context_snapshots # << >>
      /\ Last(db.context_snapshots).content = written[p]
      /\ \A k \in MasterRows(db) : db.contexts[k].content = written[p]

C6_Witness ==
  \E p \in Procs :
    /\ Exited(p) /\ script[p] = "update" /\ exit[p] = 0
    /\ pre[p].contexts = << OldContextRow >>
    /\ Last(db.context_snapshots).content = file

\* C7: in both scripts a storage error ends the run's store statements (the
\* failed statement is the last one executed, none is retried), the run prints
\* a diagnostic containing "error" and exits non-zero; status 0 comes only
\* from a run whose last store statement is a successful commit.
C7_StorageErrorAborts ==
  \A p \in Procs :
    /\ \A k \in 1..(Len(trace[p]) - 1) : trace[p][k].result = "ok"
    /\ \A j, k \in 1..Len(trace[p]) :
         (j # k /\ trace[p][j].stmt = trace[p][k].stmt) => trace[p][j].stmt = "insert_mission"
    /\ Raised(p) => pc[p] \in {"except", "finally", "done"}
    /\ (Raised(p) /\ pc[p] \in {"finally", "done"}) => PrintedError(p)
    /\ (Raised(p) /\ Exited(p)) => exit[p] = 1
    /\ (Exited(p) /\ exit[p] = 0) => Last(trace[p]) = [stmt |-> "commit", result |-> "ok"]

C7_Witness ==
  \E p \in Procs :
    /\ Exited(p) /\ script[p] = "update" /\ exit[p] = 1
    /\ Succeeded(p, "insert_snapshot")
    /\ Last(trace[p]) = [stmt |-> "commit", result |-> "engine"]
    /\ PrintedError(p)

\* C8: whenever a run has exited, the connection it opened is closed and the
\* finally-clause that releases it raised no fault of its own, also when the
\* storage error struck while the connection was being opened.
C8_ReleaseNeverFaults ==
  \A p \in Procs :
    (Exited(p) /\ trace[p] # << >>) =>
      /\ conn[p] # "open"
      /\ pending[p] \in {"none", "SystemExit"}

\* C9: with context updaters running concurrently every committed store holds
\* at most one contexts row with id master_context, each committed run has
\* appended exactly one snapshot, and of two runs that both found no row and
\* both went for the INSERT at most one commits; the other raises a storage
\* error, prints the diagnostic, exits non-zero and appends no snapshot.
C9_OneMasterRowUnderConcurrency ==
  /\ Cardinality(MasterRows(db)) <= 1
  /\ Len(db.context_snapshots) = Cardinality({p \in Procs : Succeeded(p, "commit")})
  /\ \A p, q \in Procs :
       (/\ p # q
        /\ Exited(p) /\ Exited(q)
        /\ Ran(p, "upsert") /\ ~exists[p]
        /\ Ran(q, "upsert") /\ ~exists[q]) =>
         /\ ~(Succeeded(p, "commit") /\ Succeeded(q, "commit"))
         /\ ~Succeeded(q, "commit") =>
              /\ Raised(q) /\ PrintedError(q) /\ exit[q] = 1
              /\ ~Succeeded(q, "insert_snapshot") \/ Last(trace[q]).stmt = "commit"

C9_Witness ==
  \E p, q \in Procs :
    /\ p # q /\ Exited(p) /\ Exited(q)
    /\ Ran(p, "upsert") /\ ~exists[p] /\ exit[p] = 0
    /\ Ran(q, "upsert") /\ ~exists[q] /\ exit[q] = 1
    /\ Last(trace[q]) = [stmt |-> "upsert", result |-> "constraint"]
    /\ Cardinality(MasterRows(db)) = 1

\* C10: in a run of the context updater the file is overwritten before the
\* store is first accessed and stays so: a run whose store synchronisation
\* fails exits with the new document in the file and the store as before the
\* run, a run whose file write fails touches the store not at all, and after
\* a run that exits with status 0 the file equals the live contexts row.
C10_FileBeforeStore ==
  \A p \in Procs :
    (Invoked(p) /\ script[p] = "update") =>
      /\ trace[p] # << >> =>
           /\ written[p] = FileText(context_data)
           /\ file = written[p]
      /\ (Exited(p) /\ Raised(p)) =>
           /\ file = FileText(context_data)
           /\ db = pre[p]
      /\ pending[p] = "OSError" =>
           /\ trace[p] = << >>
           /\ conn[p] = "unbound"
           /\ db = pre[p]
      /\ (Exited(p) /\ exit[p] = 0) =>
           /\ MasterRows(db) # {}
           /\ \A k \in MasterRows(db) : db.contexts[k].content = file

C10_Witness ==
  \E p \in Procs :
    /\ Exited(p) /\ script[p] = "update" /\ exit[p] = 1
    /\ Raised(p)
    /\ file = FileText(context_data)
    /\ db = pre[p]
    /\ \E k \in MasterRows(db) : db.contexts[k].content # file
====
